---- MODULE Spec2Model ----
(***************************************************************************)
(* Model of the hex outline generator of ps2map-api                        *)
(* (src/apl_api/_hexgen.py): hexagon geometry, boundary extraction         *)
(* (_get_hexes_outline), outline stitching (_connect_outlines) and the     *)
(* per-continent driver get_base_outlines.                                 *)
(*                                                                         *)
(* Numbers.  A Python float is modelled as a record [val, ulp]: val is the *)
(* exact real value in units of 1/FloatScale and ulp in {-1, 0, 1} is the  *)
(* sign of the accumulated floating-point rounding error (an error far     *)
(* smaller than one unit).  round(x, digits) only sees ulp when val lies   *)
(* exactly half way between two representable decimals.  A radius is an    *)
(* integer number of thousandths, sqrt(3) is 1.7320 and the sines and      *)
(* cosines of 30+60*i degrees are given in ten-thousandths, so that        *)
(* radius * cos(angle) is again in units of 1/FloatScale.                  *)
(***************************************************************************)
EXTENDS Integers, Sequences, FiniteSets, TLC

--------------------------------------------------------------------------
(* Bounds of the model *)

\* tiles of the one-base inputs have u and v in 0..MaxCoord
MaxCoord == 2
\* a free-form one-base input holds at most MaxTiles tiles
MaxTiles == 3
\* a two-base batch holds at most MaxRecords map hex records
MaxRecords == 3
\* a directly stitched edge list holds at most MaxEdges edges
MaxEdges == 4
\* at most MaxCalls coroutines of a host are awaited one after the other
MaxCalls == 4

--------------------------------------------------------------------------
(* Values: floats, points, tiles, results of calls *)

FloatScale == 10000000

Float(v, e) == [val |-> v, ulp |-> e]

_Point(x, y) == [x |-> x, y |-> y]

_Tile(u, v) == [u |-> u, v |-> v]

\* a call either returns a value or raises the named exception
Return(v) == [exc |-> "none", val |-> v]

Raise(e) == [exc |-> e, val |-> <<>>]

Raised(r) == r.exc # "none"

Range(s) == {s[k] : k \in DOMAIN s}

RECURSIVE Pow10(_)
Pow10(n) == IF n <= 0 THEN 1 ELSE 10 * Pow10(n - 1)

\* a dict keeps insertion order: a sequence of <<key, value>> pairs
DictKeys(d) == {d[k][1] : k \in DOMAIN d}

DictGet(d, key) == d[CHOOSE k \in DOMAIN d : d[k][1] = key][2]

\* a faulty variant of DictSet in which the items share what is added: the
\* last element of the value also goes to the value of every other key
DictSetShared(d, key, value) ==
    LET shared == [k \in DOMAIN d |->
                      IF d[k][1] = key THEN <<key, value>>
                      ELSE <<d[k][1], Append(d[k][2], value[Len(value)])>>]
    IN  IF key \in DictKeys(d) THEN shared ELSE Append(shared, <<key, value>>)

\* a faulty variant of DictSet that never looks for the key: one more item
\* for every assignment
DictSetAppend(d, key, value) == Append(d, <<key, value>>)

DictSet(d, key, value) ==
    IF key \in DictKeys(d)
    THEN [k \in DOMAIN d |-> IF d[k][1] = key THEN <<key, value>> ELSE d[k]]
    ELSE Append(d, <<key, value>>)

--------------------------------------------------------------------------
(* Hexagon geometry *)

\* math.cos(math.radians(60 * i + 30)) and math.sin of the same, in 1/10000
CosTable == <<8660, 0, -8660, -8660, 0, 8660>>

SinTable == <<5000, 10000, 5000, -5000, -10000, -5000>>

\* a faulty variant of _radius_to_size that accepts a radius of 0
RadiusToSizeZeroRadius(radius) ==
    IF radius < 0 THEN Raise("ValueError")
    ELSE Return(<<17320 * radius, 20000 * radius>>)

\* math.sqrt(3) * radius, 2 * radius
_radius_to_size(radius) ==
    IF radius <= 0 THEN Raise("ValueError")
    ELSE Return(<<17320 * radius, 20000 * radius>>)

\* a faulty variant of _tile_to_point without the shift of half a width per row
TileToPointUnshifted(tile, radius, fp) ==
    IF radius <= 0 THEN Raise("ValueError")
    ELSE LET size == _radius_to_size(radius)
         IN  Return(_Point(Float(size.val[1] * tile.u, 0),
                           Float((tile.v * size.val[2] * 3) \div 4, fp[tile.v])))

\* fp[v]: sign of the float rounding error of the origin of a tile in row v
_tile_to_point(tile, radius, fp) ==
    IF radius <= 0 THEN Raise("ValueError")
    ELSE LET size == _radius_to_size(radius)
             width == size.val[1]
             height == size.val[2]
             pos_x == (width * (2 * tile.u + tile.v)) \div 2
             pos_y == (tile.v * height * 3) \div 4
         IN  Return(_Point(Float(pos_x, 0), Float(pos_y, fp[tile.v])))

\* a faulty variant of _get_hex_corner that goes round clockwise
HexCornerClockwise(origin, radius, corner_idx) ==
    IF radius <= 0 THEN Raise("ValueError")
    ELSE IF ~(0 <= corner_idx /\ corner_idx <= 5) THEN Raise("ValueError")
    ELSE Return(_Point(
            Float(origin.x.val + radius * CosTable[corner_idx + 1], origin.x.ulp),
            Float(origin.y.val - radius * SinTable[corner_idx + 1], origin.y.ulp)))

\* a faulty variant of _get_hex_corner that accepts a radius of 0
HexCornerZeroRadius(origin, radius, corner_idx) ==
    IF radius < 0 THEN Raise("ValueError")
    ELSE IF ~(0 <= corner_idx /\ corner_idx <= 5) THEN Raise("ValueError")
    ELSE Return(_Point(
            Float(origin.x.val + radius * CosTable[corner_idx + 1], origin.x.ulp),
            Float(origin.y.val + radius * SinTable[corner_idx + 1], origin.y.ulp)))

_get_hex_corner(origin, radius, corner_idx) ==
    IF radius <= 0 THEN Raise("ValueError")
    ELSE IF ~(0 <= corner_idx /\ corner_idx <= 5) THEN Raise("ValueError")
    ELSE Return(_Point(
            Float(origin.x.val + radius * CosTable[corner_idx + 1], origin.x.ulp),
            Float(origin.y.val + radius * SinTable[corner_idx + 1], origin.y.ulp)))

\* a faulty variant of _get_hex_edge whose edge i starts at corner i
HexEdgeForward(origin, radius, edge_idx) ==
    IF radius <= 0 THEN Raise("ValueError")
    ELSE IF ~(0 <= edge_idx /\ edge_idx <= 5) THEN Raise("ValueError")
    ELSE Return(<<_get_hex_corner(origin, radius, edge_idx).val,
                  _get_hex_corner(origin, radius, (edge_idx + 1) % 6).val>>)

_get_hex_edge(origin, radius, edge_idx) ==
    IF radius <= 0 THEN Raise("ValueError")
    ELSE IF ~(0 <= edge_idx /\ edge_idx <= 5) THEN Raise("ValueError")
    ELSE LET start_idx == IF edge_idx # 0 THEN edge_idx - 1 ELSE 5
         IN  Return(<<_get_hex_corner(origin, radius, start_idx).val,
                      _get_hex_corner(origin, radius, edge_idx).val>>)

\* a faulty variant of _get_hex_neighbours that starts at the top right
HexNeighboursRotated(hex_) ==
    << _Tile(hex_.u, hex_.v + 1),
       _Tile(hex_.u - 1, hex_.v + 1),
       _Tile(hex_.u - 1, hex_.v),
       _Tile(hex_.u, hex_.v - 1),
       _Tile(hex_.u + 1, hex_.v - 1),
       _Tile(hex_.u + 1, hex_.v) >>

_get_hex_neighbours(hex_) ==
    << _Tile(hex_.u + 1, hex_.v),
       _Tile(hex_.u, hex_.v + 1),
       _Tile(hex_.u - 1, hex_.v + 1),
       _Tile(hex_.u - 1, hex_.v),
       _Tile(hex_.u, hex_.v - 1),
       _Tile(hex_.u + 1, hex_.v - 1) >>

--------------------------------------------------------------------------
(* Boundary extraction *)

\* max(-int(math.log10(precision)), 0); precision in units of 1/FloatScale
Digits(precision) ==
    IF precision <= 0 THEN Raise("ValueError")
    ELSE LET ks == {k \in 0..7 : Pow10(k) <= FloatScale \div precision}
         IN  Return(IF ks = {} THEN 0
                    ELSE CHOOSE k \in ks : \A j \in ks : j <= k)

\* round(x, digits): to the nearest multiple of 10^-digits; a float within
\* its rounding error of a tie goes to the side its error lies on, an exact
\* tie goes to the even multiple.  The result is an exact decimal: a plain
\* number of units of 1/FloatScale
Round(f, digits) ==
    LET unit == FloatScale \div Pow10(digits)
        q == f.val \div unit
        rem == f.val % unit
        up == IF 2 * rem # unit THEN 2 * rem > unit
              ELSE IF f.ulp # 0 THEN f.ulp > 0
              ELSE q % 2 = 1
    IN  (IF up THEN q + 1 ELSE q) * unit

RoundPoint(p, digits) == _Point(Round(p.x, digits), Round(p.y, digits))

\* a faulty variant of ExteriorSlots without the test "n not in members":
\* all six edges of every hex
ExteriorSlotsUnfiltered(order, members) ==
    [k \in 1..(6 * Len(order)) |-> <<order[((k - 1) \div 6) + 1], (k - 1) % 6>>]

\* a faulty variant of ExteriorSlots with the test "n in members": the sides
\* between two hexes of the group
ExteriorSlotsInterior(order, members) ==
    LET Inside(slot) == _get_hex_neighbours(slot[1])[slot[2] + 1] \in members
    IN  SelectSeq(ExteriorSlotsUnfiltered(order, members), Inside)

\* the (hex, edge index) pairs of the comprehension of lines 295-297, in
\* its iteration order; order is the iteration order of the set members
RECURSIVE ExteriorSlots(_, _)
ExteriorSlots(order, members) ==
    IF order = <<>> THEN <<>>
    ELSE LET h == Head(order)
             n == _get_hex_neighbours(h)
             Outside(i) == n[i + 1] \notin members
             exterior == SelectSeq(<<0, 1, 2, 3, 4, 5>>, Outside)
         IN  [k \in DOMAIN exterior |-> <<h, exterior[k]>>]
             \o ExteriorSlots(Tail(order), members)

_get_hexes_outline(hexes, radius, precision, order, fp) ==
    LET members == Range(hexes)
        slots == ExteriorSlots(order, members)
        Edge(k) == LET origin == _tile_to_point(slots[k][1], radius, fp)
                   IN  IF Raised(origin) THEN origin
                       ELSE _get_hex_edge(origin.val, radius, slots[k][2])
        digits == Digits(precision)
    IN  IF slots # <<>> /\ Raised(Edge(1)) THEN Raise(Edge(1).exc)
        ELSE IF Raised(digits) THEN digits
        ELSE Return([k \in DOMAIN slots |->
                LET e == Edge(k).val
                IN  <<RoundPoint(e[1], digits.val), RoundPoint(e[2], digits.val)>>])

--------------------------------------------------------------------------
(* Outline stitching: _connect_outlines *)

\* the orders in which iterating a set may yield its elements
RECURSIVE Orderings(_)
Orderings(S) ==
    IF S = {} THEN {<<>>}
    ELSE UNION {{<<x>> \o s : s \in Orderings(S \ {x})} : x \in S}

\* a faulty variant of IterationOrders that iterates the list as it was given
IterationOrdersOfList(hexes) == {hexes}

\* members = set(hexes) ... for h in members: the orders in which the set made
\* of the list may be iterated
IterationOrders(hexes) == Orderings(Range(hexes))

\* lines = [set(t) for t in outlines]
LineSets(outlines) == [k \in DOMAIN outlines |-> {outlines[k][1], outlines[k][2]}]

\* the local variables of a call, and the exception that ended it if any
StitchState(l, p, a, e) == [lines |-> l, polygon |-> p, active |-> a, exc |-> e]

\* lines 152-158; first is the order in which extend() iterates the popped set
FirstSegment(outlines, first) ==
    IF outlines = <<>> THEN StitchState(<<>>, <<>>, {}, "IndexError")
    ELSE LET all == LineSets(outlines)
         IN  StitchState(SubSeq(all, 1, Len(all) - 1), first, Range(first), "none")

\* the orders extend() may iterate the popped set in
FirstOrders(outlines) ==
    IF outlines = <<>> THEN {<<>>}
    ELSE Orderings(LineSets(outlines)[Len(outlines)])

\* a faulty variant of ScanMatch without the test of the intersection: the
\* first line of the list, whether it touches a loose end or not
ScanMatchFirst(lines, active) == IF lines = <<>> THEN 0 ELSE 1

\* for line in lines: if line.intersection(active): the index of the first
\* such line from position k on, 0 when the for loop runs to its else branch
RECURSIVE ScanFrom(_, _, _)
ScanFrom(lines, active, k) ==
    IF k > Len(lines) THEN 0
    ELSE IF lines[k] \cap active # {} THEN k
    ELSE ScanFrom(lines, active, k + 1)

ScanMatch(lines, active) == ScanFrom(lines, active, 1)

\* a faulty variant of ListRemove that drops every element equal to line
ListRemoveAll(lines, line) ==
    LET Other(l) == l # line IN SelectSeq(lines, Other)

\* a faulty variant of ListRemove that drops the last element of the list
ListRemoveLast(lines, line) == SubSeq(lines, 1, Len(lines) - 1)

\* lines.remove(line): drops the first element equal to line
RECURSIVE ListIndex(_, _, _)
ListIndex(lines, line, k) ==
    IF lines[k] = line THEN k ELSE ListIndex(lines, line, k + 1)

ListRemove(lines, line) ==
    LET k == ListIndex(lines, line, 1)
    IN  SubSeq(lines, 1, k - 1) \o SubSeq(lines, k + 1, Len(lines))

\* a faulty variant of SymmetricDifference that keeps the matched end point
\* among the loose ends
SymmetricDifferenceUnion(active, line) == active \cup line

\* active.symmetric_difference_update(line)
SymmetricDifference(active, line) == (active \ line) \cup (line \ active)

\* faulty variants of Attach that never look at which end the line touches
AttachAppend(polygon, line, new_element) == Append(polygon, new_element)

AttachInsert(polygon, line, new_element) == <<new_element>> \o polygon

\* if line.intersection({polygon[0]}): polygon.insert(0, new_element)
\* else: polygon.append(new_element)
Attach(polygon, line, new_element) ==
    IF line \cap {polygon[1]} # {} THEN <<new_element>> \o polygon
    ELSE Append(polygon, new_element)

\* a faulty variant of WhileIteration in which the line that closes the
\* polygon empties the input list
WhileIterationClosing(st) ==
    LET k == ScanMatch(st.lines, st.active)
    IN  IF k = 0 THEN [st EXCEPT !.exc = "RuntimeError"]
        ELSE LET line == st.lines[k]
                 diff == line \ st.active
             IN  IF diff = {} THEN [st EXCEPT !.lines = <<>>]
                 ELSE StitchState(ListRemove(st.lines, line),
                                  Attach(st.polygon, line, CHOOSE p \in diff : TRUE),
                                  SymmetricDifference(st.active, line),
                                  "none")

\* lines 161-186: one iteration of the while loop
WhileIteration(st) ==
    LET k == ScanMatch(st.lines, st.active)
    IN  IF k = 0 THEN [st EXCEPT !.exc = "RuntimeError"]
        ELSE LET line == st.lines[k]
                 rest == ListRemove(st.lines, line)
                 diff == line \ st.active
             IN  IF diff = {} THEN [st EXCEPT !.lines = rest]
                 ELSE IF Cardinality(diff) # 1
                 THEN [st EXCEPT !.lines = rest, !.exc = "AssertionError"]
                 ELSE LET new_element == CHOOSE p \in diff : TRUE
                      IN  StitchState(rest,
                                      Attach(st.polygon, line, new_element),
                                      SymmetricDifference(st.active, line),
                                      "none")

\* line 160: while lines
RECURSIVE WhileLoop(_)
WhileLoop(st) ==
    IF st.exc # "none" \/ st.lines = <<>> THEN st
    ELSE WhileLoop(WhileIteration(st))

\* the whole call: the locals it ends with
_connect_outlines(outlines, first) == WhileLoop(FirstSegment(outlines, first))

--------------------------------------------------------------------------
(* State *)

VARIABLES
    map_hexes,      \* get_base_outlines: the map hex records found for the continent
    radius,         \* the radius argument, in thousandths
    rest_hexes,     \* records the grouping loop has not reached yet
    base_tiles,     \* dict base id -> list of tiles
    todo,           \* items of base_tiles the outline loop has not reached yet
    base_id,        \* base of the current iteration of the outline loop
    base_outlines,  \* dict base id -> polygon
    outlines,       \* _connect_outlines: its argument, a list of point pairs
    lines,          \* remaining lines, each a set of points
    polygon,        \* output polygon
    active,         \* loose ends of the poly line
    pc,             \* position in the code
    error,          \* the exception that ended the call, "none" if none did
    fperr,          \* sign of the float rounding error of a tile origin, by row
    geom_call,      \* a direct call of a geometry helper: its arguments
    geom_ret,       \* and what it returned or raised
    _thread,        \* ApiHost._thread: the state of the thread object
    _server,        \* ApiHost._server: its started and should_exit flags
    calls,          \* the coroutines of the host awaited so far, the running one last
    grid_call,      \* _iter_map_grid: its arguments map_size and lod
    grid_it,        \* its locals step_size, min_, max_, start_x and start_y
    yielded         \* the coordinates it has yielded so far

vars == <<map_hexes, radius, rest_hexes, base_tiles, todo, base_id, base_outlines,
          outlines, lines, polygon, active, pc, error, fperr, geom_call, geom_ret,
          _thread, _server, calls, grid_call, grid_it, yielded>>

batch_vars == <<map_hexes, radius, rest_hexes, base_tiles, todo, base_id, base_outlines,
               fperr>>

geom_vars == <<geom_call, geom_ret>>

host_vars == <<_thread, _server, calls>>

grid_vars == <<grid_call, grid_it, yielded>>

hexgen_vars == <<batch_vars, outlines, lines, polygon, active, geom_vars>>

\* src/apl_api/_server.py lines 30-37: a host as constructed, its thread not started
HostUnused ==
    /\ _thread = "initial"
    /\ _server = [started |-> FALSE, should_exit |-> FALSE]
    /\ calls = <<>>

\* no grid iterator has been created
GridUnused ==
    /\ grid_call = <<>>
    /\ grid_it = <<>>
    /\ yielded = <<>>

--------------------------------------------------------------------------
(* Inputs *)

\* radii in thousandths: -1.0, 0.0, 1.0 and 1.01 (half of 1.01 is a tie of
\* rounding to two decimals)
Radii == {-1000, 0, 1000, 1010}

\* precision 1e-2 passed by get_base_outlines, in units of 1/FloatScale
ServicePrecision == 100000

Rows == 0..MaxCoord

\* whether some corner of the grid has, at this radius, a y that is a tie of
\* rounding to the service precision (no x is: sqrt(3) is irrational)
TieProne(r) ==
    \E v \in Rows, i \in 1..6 :
        ((v * 20000 * r * 3) \div 4 + r * SinTable[i]) % ServicePrecision
            = ServicePrecision \div 2

\* the rounding error of a float only ever shows in round() at a tie: where
\* the radius has none, one error function stands for all
FpErrors(r) == IF r > 0 /\ TieProne(r) THEN [Rows -> {-1, 1}] ELSE {[v \in Rows |-> 1]}

Grid == {_Tile(u, v) : u \in 0..MaxCoord, v \in 0..MaxCoord}

\* the six tiles around a tile of the grid whose neighbours all lie in it
Rings ==
    {Range(_get_hex_neighbours(c)) :
        c \in {t \in Grid : Range(_get_hex_neighbours(t)) \subseteq Grid}}

OneBaseSets == {S \in SUBSET Grid : Cardinality(S) <= MaxTiles}

\* the inputs with a hole and, beside them, the single tiles
HoleSets == Rings \cup {{t} : t \in Grid}

RECURSIVE SeqOf(_)
SeqOf(S) == IF S = {} THEN <<>>
            ELSE LET t == CHOOSE t \in S : TRUE IN <<t>> \o SeqOf(S \ {t})

MapHex(base, tile) == [map_region_id |-> base, x |-> tile.u, y |-> tile.v]

OneBaseBatch(S) == [k \in DOMAIN SeqOf(S) |-> MapHex(1, SeqOf(S)[k])]

OneBaseBatches == {OneBaseBatch(S) : S \in OneBaseSets}

HoleBatches == {OneBaseBatch(S) : S \in HoleSets}

BaseIds == {1, 2}

StripRecords == {MapHex(b, _Tile(u, 0)) : b \in BaseIds, u \in 0..MaxCoord}

StripBatches == UNION {[1..n -> StripRecords] : n \in 0..MaxRecords}

--------------------------------------------------------------------------
(* get_base_outlines *)

InitCall ==
    /\ radius \in Radii
    /\ fperr \in FpErrors(radius)
    /\ rest_hexes = map_hexes
    /\ base_tiles = <<>>
    /\ todo = <<>>
    /\ base_id = 0
    /\ base_outlines = <<>>
    /\ outlines = <<>>
    /\ lines = <<>>
    /\ polygon = <<>>
    /\ active = {}
    /\ pc = "group"
    /\ error = "none"
    /\ geom_call = <<>>
    /\ geom_ret = Return(<<>>)
    /\ HostUnused
    /\ GridUnused

\* batches of one base of up to MaxTiles tiles of the grid, and batches of two
\* bases on a strip
Init == map_hexes \in OneBaseBatches \cup StripBatches /\ InitCall

\* batches whose one base is a ring around a hole, or a single tile
InitHole == map_hexes \in HoleBatches /\ InitCall

\* lines 87-92: one iteration of the grouping loop
GroupHex ==
    /\ pc = "group"
    /\ rest_hexes # <<>>
    /\ LET hex_ == Head(rest_hexes)
           key == hex_.map_region_id
           tile == _Tile(hex_.x, hex_.y)
       IN  base_tiles' = IF key \in DictKeys(base_tiles)
                         THEN DictSet(base_tiles, key, Append(DictGet(base_tiles, key), tile))
                         ELSE DictSet(base_tiles, key, <<tile>>)
    /\ rest_hexes' = Tail(rest_hexes)
    /\ UNCHANGED <<map_hexes, radius, todo, base_id, base_outlines, outlines, lines,
                   polygon, active, pc, error, fperr, geom_call, geom_ret>>
    /\ UNCHANGED <<host_vars, grid_vars>>

\* lines 94-95: the grouping loop is over, the outline loop starts
StartOutlines ==
    /\ pc = "group"
    /\ rest_hexes = <<>>
    /\ todo' = base_tiles
    /\ pc' = "bases"
    /\ UNCHANGED <<map_hexes, radius, rest_hexes, base_tiles, base_id, base_outlines,
                   outlines, lines, polygon, active, error, fperr, geom_call, geom_ret>>
    /\ UNCHANGED <<host_vars, grid_vars>>

\* lines 95-97: the next base; its exterior edges
HexesOutline ==
    /\ pc = "bases"
    /\ todo # <<>>
    /\ base_id' = Head(todo)[1]
    /\ todo' = Tail(todo)
    /\ \E order \in IterationOrders(Head(todo)[2]) :
         LET r == _get_hexes_outline(Head(todo)[2], radius, ServicePrecision, order, fperr)
         IN  IF Raised(r)
             THEN pc' = "raised" /\ error' = r.exc /\ outlines' = outlines
             ELSE pc' = "connect" /\ error' = error /\ outlines' = r.val
    /\ UNCHANGED <<map_hexes, radius, rest_hexes, base_tiles, base_outlines, lines,
                   polygon, active, fperr, geom_call, geom_ret>>
    /\ UNCHANGED <<host_vars, grid_vars>>

\* lines 98-99: _connect_outlines(outlines), from its first line to its return
\* or to the exception that leaves get_base_outlines
ConnectOutlines ==
    /\ pc = "connect"
    /\ \E first \in FirstOrders(outlines) :
         LET st == _connect_outlines(outlines, first)
         IN  /\ lines' = st.lines
             /\ polygon' = st.polygon
             /\ active' = st.active
             /\ error' = st.exc
             /\ pc' = IF st.exc # "none" THEN "raised" ELSE "connected"
    /\ UNCHANGED <<batch_vars, outlines, geom_vars>>
    /\ UNCHANGED <<host_vars, grid_vars>>

\* line 99: base_outlines[base_id] = the polygon returned
StoreOutline ==
    /\ pc = "connected"
    /\ base_outlines' = DictSet(base_outlines, base_id, polygon)
    /\ pc' = "bases"
    /\ UNCHANGED <<map_hexes, radius, rest_hexes, base_tiles, todo, base_id, outlines,
                   lines, polygon, active, error, fperr, geom_call, geom_ret>>
    /\ UNCHANGED <<host_vars, grid_vars>>

\* line 100: return base_outlines
ReturnOutlines ==
    /\ pc = "bases"
    /\ todo = <<>>
    /\ pc' = "returned"
    /\ UNCHANGED <<batch_vars, outlines, lines, polygon, active, error, geom_vars>>
    /\ UNCHANGED <<host_vars, grid_vars>>

Next ==
    \/ GroupHex
    \/ StartOutlines
    \/ HexesOutline
    \/ ConnectOutlines
    \/ StoreOutline
    \/ ReturnOutlines

Spec == Init /\ [][Next]_vars

SpecHole == InitHole /\ [][Next]_vars

--------------------------------------------------------------------------
(* _connect_outlines called on its own, one loop iteration at a time *)

StitchPoints == <<_Point(0, 0), _Point(1, 0), _Point(1, 1), _Point(0, 1)>>

\* every pair of those points, a point paired with itself included
StitchEdges ==
    {<<StitchPoints[ab[1]], StitchPoints[ab[2]]>> :
        ab \in {ab \in (DOMAIN StitchPoints) \X (DOMAIN StitchPoints) : ab[1] <= ab[2]}}

EdgeLists == UNION {[1..n -> StitchEdges] : n \in 0..MaxEdges}

\* the six edges of the hexagon of tile (0, 0) at radius 1.0, in every order
HexagonEdges ==
    Range(_get_hexes_outline(<<_Tile(0, 0)>>, 1000, ServicePrecision, <<_Tile(0, 0)>>,
                             [v \in Rows |-> 1]).val)

HexagonLists == Orderings(HexagonEdges)

InitStitch ==
    /\ outlines \in EdgeLists \cup HexagonLists
    /\ map_hexes = <<>>
    /\ radius = 1000
    /\ fperr \in FpErrors(radius)
    /\ rest_hexes = <<>>
    /\ base_tiles = <<>>
    /\ todo = <<>>
    /\ base_id = 0
    /\ base_outlines = <<>>
    /\ lines = <<>>
    /\ polygon = <<>>
    /\ active = {}
    /\ pc = "connect"
    /\ error = "none"
    /\ geom_call = <<>>
    /\ geom_ret = Return(<<>>)
    /\ HostUnused
    /\ GridUnused

\* lines 152-158: the first segment
PopFirst ==
    /\ pc = "connect"
    /\ \E first \in FirstOrders(outlines) :
         LET st == FirstSegment(outlines, first)
         IN  /\ lines' = st.lines
             /\ polygon' = st.polygon
             /\ active' = st.active
             /\ error' = st.exc
             /\ pc' = IF st.exc # "none" THEN "raised" ELSE "while"
    /\ UNCHANGED <<batch_vars, outlines, geom_vars>>
    /\ UNCHANGED <<host_vars, grid_vars>>

\* lines 160-186: one iteration of the while loop
WhileLines ==
    /\ pc = "while"
    /\ lines # <<>>
    /\ LET st == WhileIteration(StitchState(lines, polygon, active, "none"))
       IN  /\ lines' = st.lines
           /\ polygon' = st.polygon
           /\ active' = st.active
           /\ error' = st.exc
           /\ pc' = IF st.exc # "none" THEN "raised" ELSE "while"
    /\ UNCHANGED <<batch_vars, outlines, geom_vars>>
    /\ UNCHANGED <<host_vars, grid_vars>>

\* line 187: return polygon
ReturnPolygon ==
    /\ pc = "while"
    /\ lines = <<>>
    /\ pc' = "connected"
    /\ UNCHANGED <<batch_vars, outlines, lines, polygon, active, error, geom_vars>>
    /\ UNCHANGED <<host_vars, grid_vars>>

NextStitch ==
    \/ PopFirst
    \/ WhileLines
    \/ ReturnPolygon

SpecStitch == InitStitch /\ [][NextStitch]_vars

\* the call runs on: a step that can be taken is taken in the end
SpecStitchLive == SpecStitch /\ WF_vars(NextStitch)

--------------------------------------------------------------------------
(* The geometry helpers called on their own *)

GeomOrigins == {_Point(Float(x, 0), Float(y, 0)) : x \in {0, 17320000}, y \in {0, -5000000}}

GeomIndices == -1..7

GeomRows == -1..1

GeomTiles == {_Tile(u, v) : u \in -1..1, v \in GeomRows}

GeomCall(fn, origin, r, idx, tile) ==
    [fn |-> fn, origin |-> origin, radius |-> r, idx |-> idx, tile |-> tile]

GeomCalls ==
    {GeomCall(fn, o, r, i, _Tile(0, 0)) :
        fn \in {"_get_hex_corner", "_get_hex_edge"}, o \in GeomOrigins, r \in Radii,
        i \in GeomIndices}
    \cup {GeomCall("_radius_to_size", _Point(Float(0, 0), Float(0, 0)), r, 0, _Tile(0, 0)) :
        r \in Radii}
    \cup {GeomCall("_tile_to_point", _Point(Float(0, 0), Float(0, 0)), r, 0, t) :
        r \in Radii, t \in GeomTiles}

InitGeom ==
    /\ geom_call \in GeomCalls
    /\ geom_ret = Return(<<>>)
    /\ pc = "geom"
    /\ error = "none"
    /\ map_hexes = <<>>
    /\ radius = geom_call.radius
    /\ fperr \in [GeomRows -> {-1, 1}]
    /\ rest_hexes = <<>>
    /\ base_tiles = <<>>
    /\ todo = <<>>
    /\ base_id = 0
    /\ base_outlines = <<>>
    /\ outlines = <<>>
    /\ lines = <<>>
    /\ polygon = <<>>
    /\ active = {}
    /\ HostUnused
    /\ GridUnused

GeomFrame ==
    UNCHANGED <<batch_vars, outlines, lines, polygon, active, error, geom_call,
                host_vars, grid_vars>>

CallHexCorner ==
    /\ pc = "geom"
    /\ geom_call.fn = "_get_hex_corner"
    /\ geom_ret' = _get_hex_corner(geom_call.origin, geom_call.radius, geom_call.idx)
    /\ pc' = "geom_done"
    /\ GeomFrame

CallHexEdge ==
    /\ pc = "geom"
    /\ geom_call.fn = "_get_hex_edge"
    /\ geom_ret' = _get_hex_edge(geom_call.origin, geom_call.radius, geom_call.idx)
    /\ pc' = "geom_done"
    /\ GeomFrame

CallRadiusToSize ==
    /\ pc = "geom"
    /\ geom_call.fn = "_radius_to_size"
    /\ geom_ret' = _radius_to_size(geom_call.radius)
    /\ pc' = "geom_done"
    /\ GeomFrame

CallTileToPoint ==
    /\ pc = "geom"
    /\ geom_call.fn = "_tile_to_point"
    /\ geom_ret' = _tile_to_point(geom_call.tile, geom_call.radius, fperr)
    /\ pc' = "geom_done"
    /\ GeomFrame

NextGeom ==
    \/ CallHexCorner
    \/ CallHexEdge
    \/ CallRadiusToSize
    \/ CallTileToPoint

SpecGeom == InitGeom /\ [][NextGeom]_vars

--------------------------------------------------------------------------
(* src/tools/map_tile_extractor.py: the grid of map tiles *)

\* int(math.log2(n)) for n >= 1
RECURSIVE IntLog2(_)
IntLog2(n) == IF n < 2 THEN 0 ELSE 1 + IntLog2(n \div 2)

RECURSIVE Pow4(_)
Pow4(k) == IF k <= 0 THEN 1 ELSE 4 * Pow4(k - 1)

\* int(math.sqrt(n)) for n >= 0
IntSqrt(n) == CHOOSE k \in 0..n : k * k <= n /\ (k + 1) * (k + 1) > n

\* math.ceil(4 ** (int(math.log2(map_size)) - 8 - lod)): with a negative
\* exponent the power is a fraction between 0 and 1, whose ceiling is 1
_map_tile_count(map_size, lod) ==
    LET exponent == IntLog2(map_size) - 8 - lod
    IN  IF exponent >= 0 THEN Pow4(exponent) ELSE 1

\* a faulty variant of _map_step_size without the caps for small maps
MapStepSizeUncapped(map_size, lod) ==
    IF lod = 0 THEN 4
    ELSE IF lod = 1 THEN 8
    ELSE IF lod = 2 THEN 16
    ELSE 32

_map_step_size(map_size, lod) ==
    IF lod = 0 THEN 4
    ELSE IF lod = 1 \/ map_size <= 1024 THEN 8
    ELSE IF lod = 2 \/ map_size <= 2048 THEN 16
    ELSE 32

\* the pair (min, max) of the first and the last tile start of an axis
_map_grid_limits(map_size, lod) ==
    LET step_size == _map_step_size(map_size, lod)
        tiles_per_axis == IntSqrt(_map_tile_count(map_size, lod))
        half_size == step_size * (tiles_per_axis \div 2)
    IN  IF half_size <= 0 THEN <<-step_size, -step_size>>
        ELSE <<-half_size, half_size - step_size>>

MapSizes == {1024, 2048, 4096, 8192}

Lods == 0..3

\* the variables of the outline generator, none of them in use
HexgenUnused ==
    /\ map_hexes = <<>>
    /\ radius = 1000
    /\ fperr = [v \in Rows |-> 1]
    /\ rest_hexes = <<>>
    /\ base_tiles = <<>>
    /\ todo = <<>>
    /\ base_id = 0
    /\ base_outlines = <<>>
    /\ outlines = <<>>
    /\ lines = <<>>
    /\ polygon = <<>>
    /\ active = {}
    /\ geom_call = <<>>
    /\ geom_ret = Return(<<>>)

\* _iter_map_grid(map_size, lod) has been called, its body has not started
InitGrid ==
    /\ grid_call \in [map_size : MapSizes, lod : Lods]
    /\ grid_it = <<>>
    /\ yielded = <<>>
    /\ pc = "grid"
    /\ error = "none"
    /\ HexgenUnused
    /\ HostUnused

\* lines 219-220: step_size and the limits; the two loops are at their start
IterStart ==
    /\ pc = "grid"
    /\ LET limits == _map_grid_limits(grid_call.map_size, grid_call.lod)
       IN  grid_it' = [step_size |-> _map_step_size(grid_call.map_size, grid_call.lod),
                       min_ |-> limits[1], max_ |-> limits[2],
                       start_x |-> limits[1], start_y |-> limits[1]]
    /\ pc' = "rows"
    /\ UNCHANGED <<hexgen_vars, host_vars, error, grid_call, yielded>>

\* lines 221-223: yield start_x, start_y; then the next start_x of
\* range(min_, max_ + 1, step_size), or the next start_y and the first start_x
YieldNext ==
    /\ pc = "rows"
    /\ grid_it.start_y < grid_it.max_ + 1
    /\ grid_it.start_x < grid_it.max_ + 1
    /\ yielded' = Append(yielded, <<grid_it.start_x, grid_it.start_y>>)
    /\ grid_it' = IF grid_it.start_x + grid_it.step_size < grid_it.max_ + 1
                  THEN [grid_it EXCEPT !.start_x = @ + grid_it.step_size]
                  ELSE [grid_it EXCEPT !.start_x = grid_it.min_,
                                       !.start_y = @ + grid_it.step_size]
    /\ UNCHANGED <<hexgen_vars, host_vars, pc, error, grid_call>>

\* the range of start_y, or an empty range of start_x, is exhausted: the
\* iterator ends
IterEnd ==
    /\ pc = "rows"
    /\ grid_it.start_y >= grid_it.max_ + 1 \/ grid_it.start_x >= grid_it.max_ + 1
    /\ pc' = "exhausted"
    /\ UNCHANGED <<hexgen_vars, host_vars, error, grid_call, grid_it, yielded>>

NextGrid ==
    \/ IterStart
    \/ YieldNext
    \/ IterEnd

SpecGrid == InitGrid /\ [][NextGrid]_vars

--------------------------------------------------------------------------
(* src/apl_api/_server.py: ApiHost *)

HostCoroutines == {"start", "stop", "restart"}

\* a new host: __init__ has created the server and the thread; nothing is
\* awaited yet
InitHost ==
    /\ HostUnused
    /\ pc = "idle"
    /\ error = "none"
    /\ HexgenUnused
    /\ GridUnused

HostFrame == UNCHANGED <<hexgen_vars, grid_vars>>

\* the caller awaits start(), stop() or restart() once the coroutine awaited
\* before has returned or raised
Await ==
    /\ pc \in {"idle", "raised"}
    /\ Len(calls) < MaxCalls
    /\ \E coroutine \in HostCoroutines :
         /\ calls' = Append(calls, coroutine)
         /\ pc' = IF coroutine = "start" THEN "start" ELSE "stop"
    /\ error' = "none"
    /\ UNCHANGED <<_thread, _server>>
    /\ HostFrame

\* lines 62-66: self._thread.start(); a thread object can be started once
\* only, a second start() of it raises RuntimeError, which is raised on
ThreadStart ==
    /\ pc = "start"
    /\ IF _thread = "initial"
       THEN _thread' = "started" /\ pc' = "wait" /\ error' = error
       ELSE _thread' = _thread /\ pc' = "raised" /\ error' = "RuntimeError"
    /\ UNCHANGED <<_server, calls>>
    /\ HostFrame

\* lines 69-70: the loop ends once the server reports as started; start()
\* returns, and with it restart() when start() was awaited by it
StartReturn ==
    /\ pc = "wait"
    /\ _server.started
    /\ pc' = "idle"
    /\ UNCHANGED <<_thread, _server, calls, error>>
    /\ HostFrame

\* line 79: self._server.should_exit = True
RequestExit ==
    /\ pc = "stop"
    /\ _server' = [_server EXCEPT !.should_exit = TRUE]
    /\ pc' = "join"
    /\ UNCHANGED <<_thread, calls, error>>
    /\ HostFrame

\* line 81: self._thread.join(): raises RuntimeError for a thread that was
\* never started, blocks while the thread runs, returns once it has ended;
\* stop() returns, and restart() goes on to line 47
ThreadJoin ==
    /\ pc = "join"
    /\ _thread # "started"
    /\ IF _thread = "initial"
       THEN pc' = "raised" /\ error' = "RuntimeError"
       ELSE /\ pc' = IF calls[Len(calls)] = "restart" THEN "start" ELSE "idle"
            /\ error' = error
    /\ UNCHANGED <<_thread, _server, calls>>
    /\ HostFrame

\* the thread, in Server.run: the start-up sequence is over
ServerStartup ==
    /\ _thread = "started"
    /\ ~_server.started
    /\ _server' = [_server EXCEPT !.started = TRUE]
    /\ UNCHANGED <<_thread, calls, pc, error>>
    /\ HostFrame

\* the thread, in Server.run: should_exit is seen, run() returns and the
\* thread ends
ServerExit ==
    /\ _thread = "started"
    /\ _server.started
    /\ _server.should_exit
    /\ _thread' = "stopped"
    /\ UNCHANGED <<_server, calls, pc, error>>
    /\ HostFrame

NextHost ==
    \/ Await
    \/ ThreadStart
    \/ StartReturn
    \/ RequestExit
    \/ ThreadJoin
    \/ ServerStartup
    \/ ServerExit

SpecHost == InitHost /\ [][NextHost]_vars

--------------------------------------------------------------------------
(* Vocabulary of the properties *)

\* the tiles of the base of the current iteration of the outline loop
CurTiles == IF base_id \in DictKeys(base_tiles) THEN Range(DictGet(base_tiles, base_id)) ELSE {}

\* the boundary edges of that base, each as the set of its end points
BoundaryEdges == Range(LineSets(outlines))

\* the tiles of S linked to the tiles of seen through shared sides, where
\* front holds the tiles of seen whose neighbours are still to be looked at
RECURSIVE Reach(_, _, _)
Reach(front, seen, S) ==
    LET N == (UNION {Range(_get_hex_neighbours(t)) : t \in front} \cap S) \ seen
    IN  IF N = {} THEN seen ELSE Reach(N, seen \cup N, S)

\* S is one cluster: any two of its tiles are linked through shared sides
Connected(S) ==
    \/ S = {}
    \/ LET t == CHOOSE t \in S : TRUE IN Reach({t}, {t}, S) = S

\* the grid and one more tile around it
Box == {_Tile(u, v) : u \in -1..(MaxCoord + 1), v \in -1..(MaxCoord + 1)}

\* S encloses tiles that are not its own
HasHole(S) == ~Connected(Box \ S)

Rotate(s, k) == [i \in 1..Len(s) |-> s[((i + k - 1) % Len(s)) + 1]]

Reverse(s) == [i \in 1..Len(s) |-> s[Len(s) + 1 - i]]

\* s and t are the same cyclic sequence up to rotation and reflection
SameCycle(s, t) ==
    /\ Len(s) = Len(t)
    /\ \/ Len(s) = 0
       \/ \E k \in 0..(Len(s) - 1) : Rotate(s, k) = t \/ Rotate(Reverse(s), k) = t

\* walks the edges of E from the end of path until it is back at its start
RECURSIVE Walk(_, _)
Walk(path, E) ==
    LET last == path[Len(path)]
        cands == {e \in E : last \in e}
    IN  IF cands = {} THEN path
        ELSE LET e == CHOOSE e \in cands : TRUE
                 others == e \ {last}
             IN  IF others = {} \/ others = {path[1]} THEN path
                 ELSE Walk(Append(path, CHOOSE p \in others : TRUE), E \ {e})

\* one way round the loop E, fixed by E alone
CanonicalCycle(E) ==
    IF E = {} THEN <<>>
    ELSE LET e0 == CHOOSE e \in E : TRUE
             p0 == CHOOSE p \in e0 : TRUE
         IN  IF e0 = {p0} THEN <<p0>>
             ELSE Walk(<<p0, CHOOSE p \in e0 : p # p0>>, E \ {e0})

\* the edge list is one simple closed loop: distinct two-point edges, every
\* point on exactly two of them, all of them on one cycle
IsSimpleLoop(outl) ==
    LET ls == LineSets(outl)
        E == Range(ls)
    IN  /\ Len(outl) >= 3
        /\ \A k \in DOMAIN ls : Cardinality(ls[k]) = 2
        /\ Cardinality(E) = Len(outl)
        /\ \A p \in UNION E : Cardinality({e \in E : p \in e}) = 2
        /\ Len(CanonicalCycle(E)) = Cardinality(E)

\* consecutive points of poly, the last and the first included, are edges of
\* outl, and every edge of outl is such a pair exactly once
TracesBoundary(poly, outl) ==
    LET n == Len(poly)
        Pair(k) == {poly[k], poly[(k % n) + 1]}
    IN  /\ n = Len(outl)
        /\ Cardinality(Range(LineSets(outl))) = Len(outl)
        /\ \A k \in 1..n : Pair(k) \in Range(LineSets(outl))
        /\ \A j, k \in 1..n : Pair(j) = Pair(k) => j = k

\* the call of _connect_outlines for the current base has ended
StitchEnded == base_id # 0 /\ radius > 0 /\ pc \in {"connected", "raised"}

--------------------------------------------------------------------------
(* Properties *)

\* C1 (as claimed): for a non-empty tile set that is one cluster without
\* holes, stitching its extracted boundary edges returns without error a point
\* sequence whose consecutive pairs, wraparound included, are exactly the
\* boundary edges, each once.
C1_StitchTracesBoundary ==
    (StitchEnded /\ CurTiles # {} /\ Connected(CurTiles) /\ ~HasHole(CurTiles))
        => (pc = "connected" /\ TracesBoundary(polygon, outlines))

\* Away from the radii with a rounding tie the stitched outline of a cluster
\* without holes does trace its boundary
TieFree_StitchTracesBoundary ==
    (StitchEnded /\ ~TieProne(radius) /\ CurTiles # {} /\ Connected(CurTiles)
        /\ ~HasHole(CurTiles))
        => (pc = "connected" /\ TracesBoundary(polygon, outlines))

\* C2: for an input that is one simple closed loop of n edges the call
\* returns, and the outline returned has exactly n points, no two the same (so
\* the first point is not repeated at the end).
C2_LoopOutlineHasDistinctPoints ==
    IsSimpleLoop(outlines) =>
        /\ pc # "raised"
        /\ pc = "connected" =>
            /\ Len(polygon) = Len(outlines)
            /\ \A j, k \in DOMAIN polygon : polygon[j] = polygon[k] => j = k

\* C2 witness: a hexagon loop given in list order has been stitched to the end
C2_Witness ==
    /\ pc = "connected"
    /\ IsSimpleLoop(outlines)
    /\ Len(outlines) = 6
    /\ polygon[1] # outlines[6][1]

\* the call of get_base_outlines has ended
CallEnded == pc \in {"returned", "raised"}

\* the tiles grouped under base b are one cluster without holes
ValidBase(b) ==
    LET S == Range(DictGet(base_tiles, b))
    IN  Connected(S) /\ ~HasHole(S)

\* C3 (as claimed): a base that cannot be stitched does not keep the other
\* bases of the batch from being computed: when the call has ended, every
\* valid base of the batch has its outline in the mapping returned.  (Stated
\* for the radii without rounding ties, where every valid base stitches.)
C3_FailureIsPerBase ==
    (CallEnded /\ radius > 0 /\ ~TieProne(radius)) =>
        \A b \in DictKeys(base_tiles) :
            ValidBase(b) =>
                /\ pc = "returned"
                /\ b \in DictKeys(base_outlines)
                /\ Len(DictGet(base_outlines, b)) >= 6

\* C4: when the tiles of the base form two or more clusters, stitching ends
\* with the disjoint-boundary error and returns no point list, whatever the
\* order of the edges.
C4_DisjointClustersRaise ==
    (StitchEnded /\ ~Connected(CurTiles)) => (pc = "raised" /\ error = "RuntimeError")

\* C4 witness: two tiles that do not touch, and the error raised
C4_Witness ==
    /\ pc = "raised"
    /\ error = "RuntimeError"
    /\ CurTiles = {_Tile(0, 0), _Tile(2, 0)}

\* C5: when the tiles of the base enclose a hole, stitching ends with the
\* disjoint-boundary error, whatever the order of the edges; no outline of one
\* loop or of a mix of the loops is returned.
C5_HoleRaises ==
    (StitchEnded /\ HasHole(CurTiles)) => (pc = "raised" /\ error = "RuntimeError")

\* C5 witness: the ring of six tiles, the outer loop traced, the error raised
C5_Witness ==
    /\ pc = "raised"
    /\ error = "RuntimeError"
    /\ HasHole(CurTiles)
    /\ Len(polygon) = 18
    /\ Len(lines) = 6

\* edge i of tile t as _get_hexes_outline emits it
EmittedEdge(t, i) ==
    LET e == _get_hex_edge(_tile_to_point(t, radius, fperr).val, radius, i).val
        digits == Digits(ServicePrecision).val
    IN  <<RoundPoint(e[1], digits), RoundPoint(e[2], digits)>>

\* the pairs (tile of S, index) whose neighbour of that index is not in S
ExteriorPairs(S) == {s \in S \X (0..5) : _get_hex_neighbours(s[1])[s[2] + 1] \notin S}

\* C6: the list returned by _get_hexes_outline holds exactly one edge for each
\* pair (member tile t, index i) whose i-th neighbour is not a member, namely
\* edge i of t, and nothing else (as many entries as such pairs, the edges of
\* different pairs differ, and the entries are those edges); a side between
\* two members is not in it.
C6_ExteriorEdgesExactly ==
    (pc = "connect" /\ base_id # 0) =>
        LET expected == {EmittedEdge(s[1], s[2]) : s \in ExteriorPairs(CurTiles)}
            shared == {EmittedEdge(s[1], s[2]) :
                          s \in (CurTiles \X (0..5)) \ ExteriorPairs(CurTiles)}
        IN  /\ Len(outlines) = Cardinality(ExteriorPairs(CurTiles))
            /\ Cardinality(expected) = Cardinality(ExteriorPairs(CurTiles))
            /\ Range(outlines) = expected
            /\ \A e \in shared : {e[1], e[2]} \notin BoundaryEdges

\* C6 witness: three tiles in a triangle: twelve exterior edges, six sides shared
C6_Witness ==
    /\ pc = "connect"
    /\ CurTiles = {_Tile(0, 0), _Tile(1, 0), _Tile(0, 1)}
    /\ Len(outlines) = 12

\* the six corners of tile t, rounded as the outline's points are
HexCorners(t) ==
    [i \in 1..6 |->
        RoundPoint(_get_hex_corner(_tile_to_point(t, radius, fperr).val, radius, i - 1).val,
                   Digits(ServicePrecision).val)]

\* C7: for a base of a single tile the extraction yields 6 edges and the
\* stitched outline is the tile's 6 corners in cyclic order, up to rotation
\* and reflection.
C7_SingleTileOutline ==
    (StitchEnded /\ Cardinality(CurTiles) = 1) =>
        /\ pc = "connected"
        /\ Len(outlines) = 6
        /\ Len(polygon) = 6
        /\ SameCycle(polygon, HexCorners(CHOOSE t \in CurTiles : TRUE))

\* C7 witness: the outline of the single tile (1, 1), starting at another
\* corner than corner 0
C7_Witness ==
    /\ pc = "connected"
    /\ CurTiles = {_Tile(1, 1)}
    /\ Len(polygon) = 6
    /\ polygon[1] # HexCorners(_Tile(1, 1))[1]

\* C8: for an edge list that is one simple closed loop, the outline returned
\* is one and the same cyclic sequence up to rotation and reflection (the way
\* round fixed by the edge set alone), whichever edge is popped first,
\* whichever of its end points comes first and whatever the order of the list.
C8_OutlineIndependentOfOrder ==
    (pc = "connected" /\ IsSimpleLoop(outlines)) =>
        SameCycle(polygon, CanonicalCycle(Range(LineSets(outlines))))

\* C8 witness: a square loop stitched to an outline that is the fixed way
\* round only after a reflection
C8_Witness ==
    /\ pc = "connected"
    /\ IsSimpleLoop(outlines)
    /\ Len(outlines) = 4
    /\ \A k \in 0..3 : Rotate(polygon, k) # CanonicalCycle(Range(LineSets(outlines)))

\* C9 (as claimed): for every non-empty edge list that is not one closed loop,
\* an open chain included, the call raises instead of returning a point list.
C9_NotClosedRaises ==
    (pc \in {"connected", "raised"} /\ outlines # <<>> /\ ~IsSimpleLoop(outlines))
        => pc = "raised"

\* C10: _get_hex_corner raises ValueError when radius <= 0 and when the corner
\* index is outside 0..5, and returns a point otherwise.
C10_HexCornerValidation ==
    (pc = "geom_done" /\ geom_call.fn = "_get_hex_corner") =>
        IF geom_call.radius <= 0 \/ geom_call.idx \notin 0..5
        THEN geom_ret.exc = "ValueError"
        ELSE /\ geom_ret.exc = "none"
             /\ DOMAIN geom_ret.val = {"x", "y"}

\* C10 witness: corner index 6 at a positive radius is refused
C10_Witness ==
    /\ pc = "geom_done"
    /\ geom_call.fn = "_get_hex_corner"
    /\ geom_call.idx = 6
    /\ geom_call.radius > 0
    /\ geom_ret.exc = "ValueError"

\* C11: _get_hex_edge raises ValueError exactly when radius <= 0 or the edge
\* index is outside 0..5, as _get_hex_corner does; _radius_to_size and
\* _tile_to_point raise ValueError exactly when radius <= 0.
C11_HelperValidation ==
    pc = "geom_done" =>
        /\ geom_call.fn = "_get_hex_edge" =>
            /\ geom_ret.exc \in {"none", "ValueError"}
            /\ geom_ret.exc = "ValueError"
                   <=> (geom_call.radius <= 0 \/ geom_call.idx \notin 0..5)
        /\ geom_call.fn \in {"_radius_to_size", "_tile_to_point"} =>
            /\ geom_ret.exc \in {"none", "ValueError"}
            /\ geom_ret.exc = "ValueError" <=> geom_call.radius <= 0

\* C11 witness: _radius_to_size refuses a radius of 0
C11_Witness ==
    /\ pc = "geom_done"
    /\ geom_call.fn = "_radius_to_size"
    /\ geom_call.radius = 0
    /\ geom_ret.exc = "ValueError"

\* C13: for radius > 0 and i in 0..5, _get_hex_edge returns the ordered pair
\* (corner (i-1) mod 6, corner i) of the same hexagon; edge 0 starts at corner 5.
C13_EdgeJoinsCorners ==
    (/\ pc = "geom_done"
     /\ geom_call.fn = "_get_hex_edge"
     /\ geom_call.radius > 0
     /\ geom_call.idx \in 0..5) =>
        /\ geom_ret.exc = "none"
        /\ geom_ret.val =
            <<_get_hex_corner(geom_call.origin, geom_call.radius,
                              (geom_call.idx + 5) % 6).val,
              _get_hex_corner(geom_call.origin, geom_call.radius, geom_call.idx).val>>

\* C13 witness: edge 0 of a hexagon away from (0, 0), from corner 5 to corner 0
C13_Witness ==
    /\ pc = "geom_done"
    /\ geom_call.fn = "_get_hex_edge"
    /\ geom_call.radius = 1000
    /\ geom_call.idx = 0
    /\ geom_call.origin.x.val # 0
    /\ geom_ret.exc = "none"
    /\ geom_ret.val[1].y.val < geom_call.origin.y.val
    /\ geom_ret.val[2].y.val > geom_call.origin.y.val

\* C14: for radius > 0, _tile_to_point maps tile (u, v) to
\* x = width * (u + v / 2), y = v * height * 3 / 4 with (width, height) the
\* size of the radius: in units of (width / 2, height / 4) the origin of
\* (u, v) is (2u + v, 3v).
C14_TileToPointPosition ==
    (pc = "geom_done" /\ geom_call.fn = "_tile_to_point" /\ geom_call.radius > 0) =>
        LET size == _radius_to_size(geom_call.radius).val
            tile == geom_call.tile
        IN  /\ geom_ret.exc = "none"
            /\ 2 * geom_ret.val.x.val = size[1] * (2 * tile.u + tile.v)
            /\ 4 * geom_ret.val.y.val = size[2] * (3 * tile.v)

\* C14 witness: tile (1, 1) at radius 1.0 lies at (3 * width / 2, 3 * height / 4)
C14_Witness ==
    /\ pc = "geom_done"
    /\ geom_call.fn = "_tile_to_point"
    /\ geom_call.radius = 1000
    /\ geom_call.tile = _Tile(1, 1)
    /\ geom_ret.exc = "none"
    /\ geom_ret.val.x.val = 25980000
    /\ geom_ret.val.y.val = 15000000

\* the corner offsets for i = 0..5 in units of (width / 2, radius / 2),
\* counterclockwise from the upper right
CornerOffsets == <<<<1, 1>>, <<0, 2>>, <<-1, 1>>, <<-1, -1>>, <<0, -2>>, <<1, -1>>>>

\* C15: for radius > 0 and i in 0..5, _get_hex_corner returns
\* origin + radius * (cos, sin)(60 i + 30 degrees): in units of
\* (width / 2, radius / 2) the offsets from the origin are (1,1), (0,2),
\* (-1,1), (-1,-1), (0,-2), (1,-1), counterclockwise from the upper right.
C15_HexCornerPosition ==
    (/\ pc = "geom_done"
     /\ geom_call.fn = "_get_hex_corner"
     /\ geom_call.radius > 0
     /\ geom_call.idx \in 0..5) =>
        LET off == CornerOffsets[geom_call.idx + 1]
            width == _radius_to_size(geom_call.radius).val[1]
            height == _radius_to_size(geom_call.radius).val[2]
        IN  /\ geom_ret.exc = "none"
            /\ 2 * (geom_ret.val.x.val - geom_call.origin.x.val) = off[1] * width
            /\ 4 * (geom_ret.val.y.val - geom_call.origin.y.val) = off[2] * height

\* C15 witness: corner 0 of the hexagon at (0, 0), up and to the right
C15_Witness ==
    /\ pc = "geom_done"
    /\ geom_call.fn = "_get_hex_corner"
    /\ geom_call.idx = 0
    /\ geom_call.radius = 1000
    /\ geom_call.origin = _Point(Float(0, 0), Float(0, 0))
    /\ geom_ret.exc = "none"
    /\ geom_ret.val.x.val = 8660000
    /\ geom_ret.val.y.val = 5000000

\* C12 (as claimed): a call of get_base_outlines with radius <= 0 ends with
\* ValueError and returns no result, for every batch of records, the empty
\* batch included.
C12_NonPositiveRadiusRaises ==
    (CallEnded /\ radius <= 0) => (pc = "raised" /\ error = "ValueError")

\* the records the grouping loop has been through
GroupedHexes == SubSeq(map_hexes, 1, Len(map_hexes) - Len(rest_hexes))

\* the tiles of the records of recs that carry base id b, in their order
TilesOfBase(recs, b) ==
    LET OfBase(h) == h.map_region_id = b
        own == SelectSeq(recs, OfBase)
    IN  [k \in DOMAIN own |-> _Tile(own[k].x, own[k].y)]

\* the base ids of the records of recs
BaseIdsOf(recs) == {recs[k].map_region_id : k \in DOMAIN recs}

\* C16: every record lands in the group of its own base id and in no other
\* (one group per base id, holding the tiles of the records of that id that
\* the loop has been through, and nothing else), and a call that returns
\* returns exactly one entry per base id of the batch, whatever the order of
\* the records.
C16_GroupedByBaseId ==
    /\ \A j, k \in DOMAIN base_tiles : base_tiles[j][1] = base_tiles[k][1] => j = k
    /\ DictKeys(base_tiles) = BaseIdsOf(GroupedHexes)
    /\ \A b \in DictKeys(base_tiles) : DictGet(base_tiles, b) = TilesOfBase(GroupedHexes, b)
    /\ pc = "returned" =>
        /\ DictKeys(base_outlines) = BaseIdsOf(map_hexes)
        /\ Len(base_outlines) = Cardinality(BaseIdsOf(map_hexes))

\* C16 witness: records of two bases, interleaved, and the mapping returned
\* with an entry for each
C16_Witness ==
    /\ pc = "returned"
    /\ Len(map_hexes) = 3
    /\ map_hexes[1].map_region_id = 2
    /\ map_hexes[2].map_region_id = 1
    /\ map_hexes[3].map_region_id = 2
    /\ DictKeys(base_outlines) = {1, 2}

\* the tiles that the records of the batch give base b
OwnTiles(b) == Range(TilesOfBase(map_hexes, b))

\* C17: in a batch of several bases, the boundary edges and the outline
\* computed for a base are those computed from the tiles of its own records
\* alone, whatever records of other base ids the batch holds (tiles next to
\* the base included).
C17_OutlineFromOwnTilesAlone ==
    (/\ Cardinality(BaseIdsOf(map_hexes)) >= 2
     /\ base_id # 0
     /\ pc \in {"connect", "connected"}) =>
        LET own == SeqOf(OwnTiles(base_id))
        IN  \E order \in Orderings(Range(own)) :
                LET alone == _get_hexes_outline(own, radius, ServicePrecision, order, fperr)
                IN  /\ ~Raised(alone)
                    /\ alone.val = outlines
                    /\ pc = "connected" =>
                        \E first \in FirstOrders(alone.val) :
                            LET st == _connect_outlines(alone.val, first)
                            IN  st.exc = "none" /\ st.polygon = polygon

\* C17 witness: base 1 holds tile (0, 0), base 2 the tile next to it, and the
\* outline of base 1 is computed
C17_Witness ==
    /\ pc = "connected"
    /\ base_id = 1
    /\ OwnTiles(1) = {_Tile(0, 0)}
    /\ OwnTiles(2) = {_Tile(1, 0)}
    /\ Len(polygon) = 6

\* C19: when the tile list of a base names a tile several times, the list
\* returned by _get_hexes_outline is one it returns for the list that names
\* each tile once, and holds no edge twice.
C19_DuplicatesChangeNothing ==
    (/\ pc = "connect"
     /\ base_id # 0
     /\ Len(DictGet(base_tiles, base_id)) > Cardinality(CurTiles)) =>
        /\ \E once \in Orderings(CurTiles) :
               outlines = _get_hexes_outline(once, radius, ServicePrecision, once, fperr).val
        /\ \A j, k \in DOMAIN outlines : outlines[j] = outlines[k] => j = k

\* C19 witness: tile (0, 0) named twice beside tile (1, 0): ten exterior edges
C19_Witness ==
    /\ pc = "connect"
    /\ base_id # 0
    /\ Len(DictGet(base_tiles, base_id)) = 3
    /\ CurTiles = {_Tile(0, 0), _Tile(1, 0)}
    /\ Len(outlines) = 10

\* C18: _connect_outlines terminates for every edge list: each iteration of
\* the while loop takes exactly one edge off the remaining list or raises the
\* disjoint-boundary error, the loop starts with at most n - 1 of the n edges,
\* and the call returns or fails in the end.
C18_StitchTerminates ==
    /\ [][WhileLines =>
            \/ Len(lines') = Len(lines) - 1 /\ pc' = "while"
            \/ lines' = lines /\ pc' = "raised" /\ error' = "RuntimeError"]_vars
    /\ [](pc = "while" => Len(lines) <= Len(outlines) - 1)
    /\ <>(pc \in {"connected", "raised"})

\* C18 witness: a list of four edges stitched to its end, the list used up
C18_Witness ==
    /\ pc = "connected"
    /\ Len(outlines) = 4
    /\ lines = <<>>
    /\ Len(polygon) = 4

\* where corner i of tile t lies, exactly, in units of (width / 2, radius / 2)
CornerSite(t, i) ==
    <<2 * t.u + t.v + CornerOffsets[i + 1][1], 3 * t.v + CornerOffsets[i + 1][2]>>

\* C20 (as claimed): after the rounding to the service precision, corners of
\* the tiles of a base are the same point value exactly when they are the
\* same corner: a corner shared by adjacent tiles does not depend on the tile
\* it was computed from, and two distinct corners stay apart.
C20_SharedCornersRoundAlike ==
    (pc = "connect" /\ base_id # 0) =>
        LET rounded == {<<CornerSite(t, i), HexCorners(t)[i + 1]>> :
                           t \in CurTiles, i \in 0..5}
        IN  \A a, b \in rounded : a[1] = b[1] <=> a[2] = b[2]

--------------------------------------------------------------------------
(* The loop of _connect_outlines *)

\* C28: the assertion len(diff) == 1 never fails: the call never ends with an
\* AssertionError, and at the start of every loop iteration each remaining
\* line that shares a point with active and is not contained in active has
\* exactly one point outside active, whatever the input edge list (branching
\* points, repeated edges and edges from a point to itself included)
C28_AssertionNeverFails ==
    /\ error # "AssertionError"
    /\ pc = "while" =>
         \A k \in DOMAIN lines :
             (lines[k] \cap active # {} /\ ~(lines[k] \subseteq active))
                 => Cardinality(lines[k] \ active) = 1

\* an input with an edge from a point to itself, a repeated edge and a point
\* on three edges, two lines into the polygon, one more line about to be
\* attached
C28_Witness ==
    /\ pc = "while"
    /\ Len(polygon) = 3
    /\ \E k \in DOMAIN outlines : outlines[k][1] = outlines[k][2]
    /\ \E j, k \in DOMAIN outlines : j # k /\ LineSets(outlines)[j] = LineSets(outlines)[k]
    /\ \E k \in DOMAIN lines :
         lines[k] \cap active # {} /\ ~(lines[k] \subseteq active)

\* how many edge ends of the list lie at p (an edge from p to p has two)
Degree(p, outl) ==
    Cardinality({k \in DOMAIN outl : outl[k][1] = p})
        + Cardinality({k \in DOMAIN outl : outl[k][2] = p})

\* every point is an end point of at most two edges
AtMostTwoEdges(outl) ==
    \A k \in DOMAIN outl : Degree(outl[k][1], outl) <= 2 /\ Degree(outl[k][2], outl) <= 2

\* how often the line occurs in the list
Occurrences(ls, line) == Cardinality({k \in DOMAIN ls : ls[k] = line})

\* the lines of the input that are no longer among the remaining lines
Consumed == {e \in BoundaryEdges : Occurrences(LineSets(outlines), e) > Occurrences(lines, e)}

LoopClosed ==
    /\ pc = "while"
    /\ Len(polygon) >= 3
    /\ Cardinality(Range(polygon)) = Len(polygon)
    /\ {polygon[1], polygon[Len(polygon)]} \in Consumed

\* C24: an iteration that consumes an edge with both points in active changes
\* neither polygon nor active, and once the loop is closed no later iteration
\* adds a point to polygon: with edges left the call can only fail
C24_ClosedLoopStaysClosed ==
    /\ [][(WhileLines /\ lines' # lines /\ polygon' = polygon) => active' = active]_vars
    /\ [][(LoopClosed /\ WhileLines) => polygon' = polygon]_vars

\* C26: _connect_outlines mangles its argument: a step of the call that
\* consumes an edge (the pop of the first segment, the removal of a matched
\* line) takes it out of the list the caller passed in
C26_ArgumentMangled ==
    [][((PopFirst /\ pc' = "while") \/ (WhileLines /\ lines' # lines))
          => outlines' # outlines]_vars

--------------------------------------------------------------------------
(* The boundary as a set of edges *)

\* the two end points of edge i of tile t, exactly
EdgeSites(t, i) == {CornerSite(t, (i + 5) % 6), CornerSite(t, i)}

\* the corners of the tiles of S, exactly
CornerSites(S) == {CornerSite(t, i) : t \in S, i \in 0..5}

\* the boundary sides of S that end at the corner c
SidesAt(c, S) == {s \in ExteriorPairs(S) : c \in EdgeSites(s[1], s[2])}

\* rounding tells the corners apart exactly as their positions do
ExactCorners == radius > 0 /\ ~TieProne(radius)

\* C27: every corner is an end point of no boundary edge or of exactly two:
\* so for the exact positions of the corners of the tiles, and, where rounding
\* tells corners apart exactly as their positions do, for the points of the
\* list _get_hexes_outline returned, each of which lies on two edges that
\* join two different points
C27_CornersOnTwoEdges ==
    (pc = "connect" /\ base_id # 0) =>
        /\ \A c \in CornerSites(CurTiles) :
               Cardinality(SidesAt(c, CurTiles)) \in {0, 2}
        /\ ExactCorners =>
               /\ \A k \in DOMAIN outlines : outlines[k][1] # outlines[k][2]
               /\ \A e \in BoundaryEdges : \A p \in e : Degree(p, outlines) = 2

\* three tiles around a corner that is on no boundary edge, twelve boundary
\* edges around them
C27_Witness ==
    /\ pc = "connect"
    /\ ExactCorners
    /\ Cardinality(CurTiles) = 3
    /\ Len(outlines) = 12
    /\ \E c \in CornerSites(CurTiles) : SidesAt(c, CurTiles) = {}

\* the lines the call has traced: those of the input no longer in lines
TracedEdges == BoundaryEdges \ Range(lines)

\* C29: the list _get_hexes_outline returns holds no unordered edge twice:
\* two boundary sides never join the same two corners, and where rounding
\* tells corners apart exactly as their positions do the list has as many
\* different lines as entries; when the call of the stitcher has ended, the
\* remaining lines are all different, none of them is a traced one, and
\* there are as many as there are untraced boundary sides
C29_NoEdgeTwice ==
    /\ (pc = "connect" /\ base_id # 0) =>
          /\ \A a, b \in ExteriorPairs(CurTiles) :
                 EdgeSites(a[1], a[2]) = EdgeSites(b[1], b[2]) => a = b
          /\ ExactCorners => Cardinality(BoundaryEdges) = Len(outlines)
    /\ (StitchEnded /\ ExactCorners) =>
          /\ Cardinality(Range(lines)) = Len(lines)
          /\ Len(lines) = Cardinality(ExteriorPairs(CurTiles)) - Cardinality(TracedEdges)

\* two tiles apart: the six sides of one traced, the six of the other left
C29_Witness ==
    /\ pc = "raised"
    /\ error = "RuntimeError"
    /\ ExactCorners
    /\ Cardinality(CurTiles) = 2
    /\ Len(outlines) = 12
    /\ Len(lines) = 6
    /\ Cardinality(TracedEdges) = 6

\* C30: get_base_outlines never calls the stitcher on an empty list: every
\* group of base_tiles holds at least one tile, the list handed to
\* _connect_outlines has at least six edges, and the call never ends with the
\* IndexError of a pop from an empty list
C30_StitcherInputNotEmpty ==
    /\ \A k \in DOMAIN base_tiles : Len(base_tiles[k][2]) >= 1
    /\ pc = "connect" => (CurTiles # {} /\ Len(outlines) >= 6)
    /\ error # "IndexError"

\* a base of one tile, six edges handed to the stitcher
C30_Witness ==
    /\ pc = "connect"
    /\ Cardinality(CurTiles) = 1
    /\ Len(outlines) = 6

\* called on an empty list, _connect_outlines ends at its pop with an
\* IndexError: not with the RuntimeError of line 185, not with a return
EmptyListRaisesIndexError ==
    (outlines = <<>> /\ pc # "connect") => (pc = "raised" /\ error = "IndexError")

--------------------------------------------------------------------------
(* Neighbours and edges *)

\* where a point lies, its rounding error left aside
ExactPoint(p) == <<p.x.val, p.y.val>>

\* edge i of the tile with that origin, as the set of its end points
ExactEdge(origin, r, i) ==
    LET e == _get_hex_edge(origin, r, i).val IN {ExactPoint(e[1]), ExactPoint(e[2])}

\* C25: neighbour offsets and edge indices are aligned: for the tile t whose
\* origin _tile_to_point returned and every i in 0..5, edge i of t joins the
\* same two points as edge (i+3) mod 6 of the i-th neighbour of t, and the
\* (i+3) mod 6-th neighbour of that neighbour is t
C25_NeighboursAlignedWithEdges ==
    (pc = "geom_done" /\ geom_call.fn = "_tile_to_point" /\ geom_call.radius > 0) =>
        LET t == geom_call.tile
            r == geom_call.radius
            fp == [v \in -2..2 |-> 1]
        IN  \A i \in 0..5 :
                LET n == _get_hex_neighbours(t)[i + 1]
                    j == (i + 3) % 6
                IN  /\ _get_hex_neighbours(n)[j + 1] = t
                    /\ Cardinality(ExactEdge(geom_ret.val, r, i)) = 2
                    /\ ExactEdge(geom_ret.val, r, i)
                           = ExactEdge(_tile_to_point(n, r, fp).val, r, j)

\* the origin of tile (1, -1) at radius 1.01, whose edge 1 runs from
\* (1.74932, -1.01) to (0.87466, -0.505)
C25_Witness ==
    /\ pc = "geom_done"
    /\ geom_call.fn = "_tile_to_point"
    /\ geom_call.radius = 1010
    /\ geom_call.tile = _Tile(1, -1)
    /\ geom_ret.exc = "none"
    /\ ExactEdge(geom_ret.val, 1010, 1) = {<<17493200, -10100000>>, <<8746600, -5050000>>}

--------------------------------------------------------------------------
(* The grid of map tiles *)

\* C21: for map sizes 1024 to 8192 and LOD 0 to 3 the limits are
\* min = -map_size / 128 and max = min + step * (n - 1), with step the step
\* size and n the square root of the tile count; the iterator yields the
\* coordinates row by row (x runs first), and exactly as many as the tile
\* count when it ends
C21_GridLimitsAndCount ==
    pc \in {"rows", "exhausted"} =>
        LET map_size == grid_call.map_size
            step == _map_step_size(map_size, grid_call.lod)
            count == _map_tile_count(map_size, grid_call.lod)
            n == IntSqrt(count)
            min_ == grid_it.min_
        IN  /\ n * n = count
            /\ <<grid_it.min_, grid_it.max_>> = _map_grid_limits(map_size, grid_call.lod)
            /\ 128 * min_ = -map_size
            /\ grid_it.max_ = min_ + step * (n - 1)
            /\ Len(yielded) <= count
            /\ \A k \in DOMAIN yielded :
                   yielded[k] = <<min_ + step * ((k - 1) % n), min_ + step * ((k - 1) \div n)>>
            /\ pc = "exhausted" => Len(yielded) = count

\* map size 1024 at LOD 2, where the step is capped at 8: one tile at (-8, -8);
\* or map size 2048 at LOD 1: sixteen tiles, the last at (8, 8)
C21_Witness ==
    /\ pc = "exhausted"
    /\ \/ /\ grid_call = [map_size |-> 1024, lod |-> 2]
          /\ yielded = << <<-8, -8>> >>
       \/ /\ grid_call = [map_size |-> 2048, lod |-> 1]
          /\ Len(yielded) = 16
          /\ yielded[5] = <<-16, -8>>
          /\ yielded[16] = <<8, 8>>

--------------------------------------------------------------------------
(* ApiHost *)

\* the server runs: its thread is alive and it reports as started
ServerRunning == _thread = "started" /\ _server.started

\* C22: on a host started with start(), restart() returns without an error
\* and with the server running; so does the last start() of start(), stop(),
\* start()
C22_RestartBringsServerUp ==
    (/\ pc \in {"idle", "raised"}
     /\ calls \in {<<"start", "restart">>, <<"start", "stop", "start">>})
        => (pc = "idle" /\ error = "none" /\ ServerRunning)

====
